---- MODULE Spec2Model ----
(***************************************************************************)
(* termichan: the LLM service (termichan-llm/src/lib.rs) and the settings  *)
(* it reads (termichan-config/src/config.rs).                              *)
(*                                                                         *)
(* One behaviour is the life of one LlmService: construction from an       *)
(* LlmConfig, then one chat_completion or one stream_chat_completion.      *)
(* The provider (async_openai Client) is the environment: it answers a     *)
(* blocking call with a response or an error, and a streaming call with a  *)
(* sequence of items, each a chunk or an error.                            *)
(*                                                                         *)
(* Text is a sequence of one-character strings.  Option<T> is a sequence   *)
(* of length at most one: None is << >>, Some(v) is <<v>>.                 *)
(***************************************************************************)
EXTENDS Integers, Sequences, FiniteSets, TLC

VARIABLES config, svc, pc, mode, messages, request, calls, response,
          result, frames, out, elapsed, gate

vars == <<config, svc, pc, mode, messages, request, calls, response,
          result, frames, out, elapsed, gate>>

pipeline == <<config, svc, pc, mode, messages, request, calls, response,
              result, frames, out, elapsed>>

-----------------------------------------------------------------------------
(* Bounds of the model *)

MaxChoices == 2
MaxFrames == 3
MaxElapsed == 3
MaxCmdLen == 3
MaxPrefixes == 2

(* max_tokens is cast with `as u16`: the value is kept modulo 2^16 *)
U16Modulus == 65536

-----------------------------------------------------------------------------
(* Option<T> *)

None == << >>
Some(v) == <<v>>
IsSome(o) == Len(o) = 1
Unwrap(o) == o[1]

SeqsUpTo(S, n) == UNION {[1..k -> S] : k \in 0..n}

-----------------------------------------------------------------------------
(* Settings: the fields of LlmConfig the service reads, and timeout_secs *)

ApiKeys == {None, Some("sk-key")}
(* top_p in hundredths: 0.0 and 0.9 *)
TopPs == {None, Some(0), Some(90)}
MaxTokens == {None, Some(1), Some(1500), Some(65536), Some(70000)}
TimeoutSecs == {1, 2}

LlmConfig == [api_key : ApiKeys, model : {"gpt-4o"}, temperature : {70},
              top_p : TopPs, max_tokens : MaxTokens, timeout_secs : TimeoutSecs]

(* A conversation is a list of messages; a message is shown by its role *)
Conversations == {<< >>, <<"user">>, <<"system", "user">>}

-----------------------------------------------------------------------------
(* What the provider can answer *)

Diagnostics == {<<"connection reset">>, <<"401">>}

Contents == {None,
             Some(<<"l", "s">>),
             Some(<<" ", "l", "s", " ">>),
             Some(<< >>)}

Choice == [content : Contents]

OkResponse(cs) == [kind |-> "Ok", choices |-> cs, diag |-> << >>]
ErrResponse(d) == [kind |-> "Err", choices |-> << >>, diag |-> d]
NoResponse == [kind |-> "None", choices |-> << >>, diag |-> << >>]

Responses == {OkResponse(cs) : cs \in SeqsUpTo(Choice, MaxChoices)}

(* Stream items: Result<CreateChatCompletionStreamResponse, OpenAIError> *)
Delta(c) == [content |-> c]
StreamItems == {OkResponse(<<Delta(Some(<<"l">>))>>),
                OkResponse(<<Delta(Some(<<"s">>))>>),
                OkResponse(<<Delta(None)>>),
                OkResponse(<< >>),
                OkResponse(<<Delta(None), Delta(Some(<<"x">>))>>),
                ErrResponse(<<"connection reset">>)}

(* Result<_, LlmError> as the caller sees it *)
Res(k, v) == [kind |-> k, val |-> v]
NoResult == Res("None", << >>)

-----------------------------------------------------------------------------
(* LlmService::new *)

new_unchecked(cfg) == "Created"

new(cfg) == IF cfg.api_key = None THEN "ApiKeyMissing" ELSE "Created"

(* `max_tokens as u16`: a u32 narrowed to 16 bits *)
as_u16(n) == n % U16Modulus

(* The request the builder holds when build() is called.  model, messages  *)
(* and temperature are always set; top_p and max_tokens only when the      *)
(* setting is Some.  build() itself fails only for a field that was never  *)
(* set and has no default, which cannot happen here, so it returns Ok for  *)
(* every conversation, the empty one included.                             *)
build_request(cfg, msgs) ==
    [model       |-> cfg.model,
     messages    |-> msgs,
     temperature |-> cfg.temperature,
     top_p       |-> IF IsSome(cfg.top_p) THEN Some(Unwrap(cfg.top_p)) ELSE None,
     max_tokens  |-> IF IsSome(cfg.max_tokens)
                       THEN Some(as_u16(Unwrap(cfg.max_tokens)))
                       ELSE None]

(* response.choices[0].message.content.clone().ok_or(EmptyResponse):       *)
(* indexing an empty Vec panics.                                           *)
first_choice_content_last(resp) ==
    IF Len(resp.choices) = 0 THEN Res("Panic", << >>)
    ELSE IF IsSome(resp.choices[Len(resp.choices)].content)
         THEN Res("Ok", Unwrap(resp.choices[Len(resp.choices)].content))
         ELSE Res("EmptyResponse", << >>)

first_choice_content(resp) ==
    IF Len(resp.choices) = 0 THEN Res("Panic", << >>)
    ELSE IF IsSome(resp.choices[1].content)
         THEN Res("Ok", Unwrap(resp.choices[1].content))
         ELSE Res("EmptyResponse", << >>)

(* The closure given to stream.map *)
map_chunk_default(chunk) ==
    IF chunk.kind = "Err" THEN Res("ApiError", chunk.diag)
    ELSE IF Len(chunk.choices) > 0 /\ IsSome(chunk.choices[1].content)
         THEN Res("Ok", Unwrap(chunk.choices[1].content))
         ELSE Res("Ok", << >>)

map_chunk(chunk) ==
    IF chunk.kind = "Err" THEN Res("ApiError", chunk.diag)
    ELSE IF Len(chunk.choices) > 0
         THEN IF IsSome(chunk.choices[1].content)
              THEN Res("Ok", Unwrap(chunk.choices[1].content))
              ELSE Res("EmptyResponse", << >>)
         ELSE Res("EmptyResponse", << >>)

-----------------------------------------------------------------------------
(* The safety gate: SecurityConfig and ConfirmationMode are declared in    *)
(* config.rs; the decision function follows their documentation.           *)

ConfirmationMode == {"Always", "Never", "Dangerous"}

Alphabet == {"r", "m", "R", " "}
Commands == SeqsUpTo(Alphabet, MaxCmdLen)
DangerousPrefixes == {<<"r", "m", " ">>, <<"r">>, <<"R", "m">>, <<"m">>}
PrefixLists == SeqsUpTo(DangerousPrefixes, MaxPrefixes)

Lower(c) == IF c = "R" THEN "r" ELSE c

starts_with_ignore_case(s, p) ==
    /\ Len(p) <= Len(s)
    /\ [i \in 1..Len(p) |-> Lower(s[i])] = [i \in 1..Len(p) |-> Lower(p[i])]

starts_with(s, p) == Len(p) <= Len(s) /\ SubSeq(s, 1, Len(p)) = p

RECURSIVE any_prefix(_, _)
any_prefix(command, prefixes) ==
    IF prefixes = << >> THEN FALSE
    ELSE IF starts_with(command, Head(prefixes)) THEN TRUE
    ELSE any_prefix(command, Tail(prefixes))

requires_confirmation(m, command, prefixes) ==
    CASE m = "Always"    -> TRUE
      [] m = "Never"     -> FALSE
      [] m = "Dangerous" -> any_prefix(command, prefixes)

GateIdle == [mode |-> "Always", command |-> << >>, prefixes |-> << >>,
             verdict |-> None]

-----------------------------------------------------------------------------
(* Initial states *)

Idle ==
    /\ svc = "Uninit"
    /\ pc = "idle"
    /\ mode = "none"
    /\ messages = << >>
    /\ request = None
    /\ calls = 0
    /\ response = NoResponse
    /\ result = NoResult
    /\ frames = << >>
    /\ out = << >>
    /\ elapsed = 0

Init ==
    /\ config \in LlmConfig
    /\ Idle
    /\ gate = GateIdle

(* LlmConfig::default() *)
DefaultConfig == [api_key |-> None, model |-> "gpt-4o", temperature |-> 70,
                  top_p |-> None, max_tokens |-> Some(1500), timeout_secs |-> 60]

InitGate ==
    /\ config = DefaultConfig
    /\ Idle
    /\ gate \in [mode : ConfirmationMode, command : Commands,
                 prefixes : PrefixLists, verdict : {None}]

-----------------------------------------------------------------------------
(* Actions *)

New ==
    /\ svc = "Uninit"
    /\ svc' = new(config)
    /\ UNCHANGED <<config, pc, mode, messages, request, calls, response,
                   result, frames, out, elapsed, gate>>

(* chat_completion up to the await on client.chat().create(request) *)
StartBlocking ==
    /\ svc = "Created"
    /\ pc = "idle"
    /\ \E msgs \in Conversations :
         /\ messages' = msgs
         /\ request' = Some(build_request(config, msgs))
    /\ calls' = calls + 1
    /\ mode' = "blocking"
    /\ pc' = "awaiting"
    /\ UNCHANGED <<config, svc, response, result, frames, out, elapsed, gate>>

(* create returned Ok(response) *)
CreateSucceeds ==
    /\ pc = "awaiting"
    /\ \E r \in Responses :
         /\ response' = r
         /\ IF first_choice_content(r).kind = "Panic"
              THEN /\ pc' = "panicked"
                   /\ result' = NoResult
              ELSE /\ pc' = "returned"
                   /\ result' = first_choice_content(r)
    /\ UNCHANGED <<config, svc, mode, messages, request, calls, frames, out,
                   elapsed, gate>>

CreateFailsRetry ==
    /\ pc = "awaiting"
    /\ calls < 3
    /\ calls' = calls + 1
    /\ UNCHANGED <<config, svc, pc, mode, messages, request, response, result,
                   frames, out, elapsed, gate>>

(* create returned Err(e): `?` converts it with From into ApiError(e) *)
CreateFails ==
    /\ pc = "awaiting"
    /\ \E d \in Diagnostics :
         /\ response' = ErrResponse(d)
         /\ result' = Res("ApiError", d)
    /\ pc' = "returned"
    /\ UNCHANGED <<config, svc, mode, messages, request, calls, frames, out,
                   elapsed, gate>>

(* A second passes while the call is suspended.  The client is built from  *)
(* the API key and base URL only: nothing reads timeout_secs, so no timer  *)
(* ends the wait.                                                          *)
Tick ==
    /\ pc = "awaiting"
    /\ elapsed < MaxElapsed
    /\ elapsed' = elapsed + 1
    /\ UNCHANGED <<config, svc, pc, mode, messages, request, calls, response,
                   result, frames, out, gate>>

(* stream_chat_completion up to the await on create_stream(request) *)
StartStream ==
    /\ svc = "Created"
    /\ pc = "idle"
    /\ \E msgs \in Conversations :
         /\ messages' = msgs
         /\ request' = Some(build_request(config, msgs))
    /\ calls' = calls + 1
    /\ mode' = "stream"
    /\ pc' = "opening"
    /\ UNCHANGED <<config, svc, response, result, frames, out, elapsed, gate>>

OpenFails ==
    /\ pc = "opening"
    /\ \E d \in Diagnostics :
         /\ response' = ErrResponse(d)
         /\ result' = Res("ApiError", d)
    /\ pc' = "returned"
    /\ UNCHANGED <<config, svc, mode, messages, request, calls, frames, out,
                   elapsed, gate>>

OpenSucceeds ==
    /\ pc = "opening"
    /\ result' = Res("Stream", << >>)
    /\ pc' = "streaming"
    /\ UNCHANGED <<config, svc, mode, messages, request, calls, response,
                   frames, out, elapsed, gate>>

(* The consumer polls the mapped stream; the provider stream yields one    *)
(* item, a chunk or an error, and the closure maps it.  The adaptor does   *)
(* not fuse the stream: it yields whatever the inner stream yields next.   *)
PollNext ==
    /\ pc = "streaming"
    /\ Len(frames) < MaxFrames
    /\ \E item \in StreamItems :
         /\ frames' = Append(frames, item)
         /\ out' = Append(out, map_chunk(item))
    /\ UNCHANGED <<config, svc, pc, mode, messages, request, calls, response,
                   result, elapsed, gate>>

(* The provider stream yields None *)
StreamEnds ==
    /\ pc = "streaming"
    /\ pc' = "exhausted"
    /\ UNCHANGED <<config, svc, mode, messages, request, calls, response,
                   result, frames, out, elapsed, gate>>

Next ==
    \/ New
    \/ StartBlocking
    \/ CreateSucceeds
    \/ CreateFails
    \/ Tick
    \/ StartStream
    \/ OpenFails
    \/ OpenSucceeds
    \/ PollNext
    \/ StreamEnds

Spec == Init /\ [][Next]_vars

(* The gate applied to one input *)
Evaluate ==
    /\ gate.verdict = None
    /\ gate' = [gate EXCEPT !.verdict =
                  Some(requires_confirmation(gate.mode, gate.command, gate.prefixes))]
    /\ UNCHANGED pipeline

NextGate == Evaluate

SpecGate == InitGate /\ [][NextGate]_vars

-----------------------------------------------------------------------------
(* Properties *)

Blank == " "

RECURSIVE TrimStart(_)
TrimStart(t) == IF t # << >> /\ Head(t) = Blank THEN TrimStart(Tail(t)) ELSE t

RECURSIVE TrimEnd(_)
TrimEnd(t) ==
    IF t # << >> /\ t[Len(t)] = Blank THEN TrimEnd(SubSeq(t, 1, Len(t) - 1)) ELSE t

Trim(t) == TrimEnd(TrimStart(t))

(* C1: with no API key, constructing the service fails with ApiKeyMissing, *)
(* no request is built and the provider is never invoked; the provider is  *)
(* invoked only by a service whose API-key check succeeded.                *)
C1_ApiKeyChecked ==
    /\ (svc # "Uninit" /\ config.api_key = None) => svc = "ApiKeyMissing"
    /\ config.api_key = None => (request = None /\ calls = 0 /\ pc = "idle")
    /\ calls > 0 => (svc = "Created" /\ IsSome(config.api_key))

C1_Witness == svc = "ApiKeyMissing" /\ config.api_key = None /\ calls = 0

(* C2: the gate's verdict is TRUE under Always, FALSE under Never, and     *)
(* under Dangerous TRUE exactly when some entry of the list is a           *)
(* character-for-character prefix of the command as given; no reordering   *)
(* of the list changes the verdict.                                        *)
C2_Verdict ==
    IsSome(gate.verdict) =>
      LET v   == Unwrap(gate.verdict)
          cmd == gate.command
          ps  == gate.prefixes
      IN  /\ gate.mode = "Always" => v = TRUE
          /\ gate.mode = "Never" => v = FALSE
          /\ gate.mode = "Dangerous" =>
               (v <=> \E i \in DOMAIN ps :
                        /\ Len(ps[i]) <= Len(cmd)
                        /\ \A k \in 1..Len(ps[i]) : cmd[k] = ps[i][k])
          /\ \A f \in Permutations(DOMAIN ps) :
               requires_confirmation(gate.mode, cmd, [i \in DOMAIN ps |-> ps[f[i]]]) = v

C2_Witness ==
    /\ gate.mode = "Dangerous"
    /\ gate.command = <<"r", "m", " ">>
    /\ gate.prefixes = << <<"R", "m">>, <<"r", "m", " ">> >>
    /\ gate.verdict = Some(TRUE)

(* C3: a blocking completion whose call succeeds with no usable text (no   *)
(* choice, or a first choice with null content) returns EmptyResponse.     *)
C3_EmptyResponseNoCrash ==
    (/\ mode = "blocking"
     /\ messages # << >>
     /\ response.kind = "Ok"
     /\ (Len(response.choices) = 0 \/ response.choices[1].content = None))
    => (pc = "returned" /\ result = Res("EmptyResponse", << >>))

(* C4 as stated: a successful blocking completion returns the first        *)
(* choice's text with leading and trailing whitespace trimmed.             *)
C4_Trimmed ==
    (mode = "blocking" /\ pc = "returned" /\ result.kind = "Ok")
    => result.val = Trim(Unwrap(response.choices[1].content))

(* C4 amended: a successful blocking completion returns the first choice's *)
(* text exactly as the provider sent it, whatever the later choices are.   *)
C4_FirstChoiceVerbatim ==
    (mode = "blocking" /\ pc = "returned" /\ result.kind = "Ok")
    => /\ IsSome(response.choices[1].content)
       /\ result = Res("Ok", Unwrap(response.choices[1].content))

C4_Witness ==
    /\ mode = "blocking"
    /\ pc = "returned"
    /\ Len(response.choices) = 2
    /\ response.choices[1].content = Some(<<" ", "l", "s", " ">>)
    /\ response.choices[2].content = Some(<<"l", "s">>)
    /\ result = Res("Ok", <<" ", "l", "s", " ">>)

(* C5: a completion started with an empty conversation fails with          *)
(* InvalidConversation and the provider is never invoked.                  *)
C5_EmptyConversationRejected ==
    (pc # "idle" /\ messages = << >>)
    => (calls = 0 /\ pc = "returned" /\ result = Res("InvalidConversation", << >>))

(* C6: one blocking completion on a non-empty conversation invokes the     *)
(* provider exactly once; a failed call returns ApiError with the          *)
(* provider's diagnostic and is not repeated.                              *)
C6_ExactlyOnce ==
    (mode = "blocking" /\ messages # << >>)
    => /\ calls = 1
       /\ response.kind = "Err" =>
            (pc = "returned" /\ result = Res("ApiError", response.diag))
       /\ response.kind = "Ok" => pc \in {"returned", "panicked"}

C6_Witness ==
    /\ mode = "blocking"
    /\ messages # << >>
    /\ pc = "returned"
    /\ result = Res("ApiError", <<"401">>)
    /\ calls = 1

(* C7: the request built for a non-empty conversation carries top_p and   *)
(* max_tokens exactly when the settings do, each with the settings' value. *)
C7_OptionalParametersExact ==
    (IsSome(request) /\ messages # << >>) =>
      /\ Unwrap(request).top_p = config.top_p
      /\ Unwrap(request).max_tokens = config.max_tokens

(* C8: the streamed output has one element per provider frame, in order:   *)
(* Ok(delta) for a frame with a content delta, Err(EmptyResponse) for a    *)
(* frame with no delta or no choice; the sequence goes on after it.        *)
C8_OnePerFrame ==
    mode = "stream" =>
      /\ Len(out) = Len(frames)
      /\ \A i \in DOMAIN frames :
           frames[i].kind = "Ok" =>
             IF Len(frames[i].choices) > 0 /\ frames[i].choices[1].content # None
               THEN out[i] = Res("Ok", frames[i].choices[1].content[1])
               ELSE out[i] = Res("EmptyResponse", << >>)

C8_Witness ==
    /\ Len(out) = 3
    /\ frames[1].choices = << >>
    /\ out[1] = Res("EmptyResponse", << >>)
    /\ frames[2].choices = <<Delta(None)>>
    /\ out[2] = Res("EmptyResponse", << >>)
    /\ out[3] = Res("Ok", <<"l">>)

(* C9: an Err(ApiError) element of the streamed output is its last         *)
(* element.                                                                *)
C9_ApiErrorTerminal ==
    (mode = "stream" /\ messages # << >>)
    => \A i \in DOMAIN out : out[i].kind = "ApiError" => i = Len(out)

(* C10: a blocking call is not left suspended once timeout_secs seconds    *)
(* have passed: by then it has failed with ApiError.                       *)
C10_TimeoutEnforced ==
    (pc = "awaiting" /\ messages # << >>) => elapsed <= config.timeout_secs

====
